---- MODULE Spec2Model ----
(***************************************************************************)
(* A model of menpo's TriMesh (src/menpo/shape/mesh/base.py) and of        *)
(* pybug's PCAModel (src/pybug/model/pca.py).                              *)
(*                                                                         *)
(* numpy arrays are sequences; the INDEX VALUES they hold are 0-based, as  *)
(* in the source, so the element at index i of array a is a[i + 1].        *)
(* A triangle list is a sequence of rows <<A, B, C>>, a boolean mask a     *)
(* sequence of BOOLEANs, a point a tuple of integer coordinates.           *)
(***************************************************************************)
EXTENDS Integers, Sequences, FiniteSets

VARIABLES
    points,         \* TriMesh.points of the mesh the methods are called on
    trilist,        \* TriMesh.trilist of that mesh
    mask,           \* the mask the last from_mask call was given
    caller_mask,    \* the caller's mask array as that call left it
    op,             \* the last method called ("init": none yet)
    err,            \* "none", or the exception the last call raised
    tm,             \* the mesh the last from_mask call returned
    copied,         \* whether the last from_mask call reached self.copy()
    edges,          \* the rows the last edge_indices call returned
    uedges,         \* the rows the last unique_edge_indicies call returned
    boundary,       \* the indices the last boundary_tri_index call returned
    _eigenvalues,   \* PCAModel._eigenvalues
    _components,    \* the model's stored components, each named by its rank
    _n_components,  \* the model's n_components
    eig0,           \* history: the eigenvalues of the original decomposition
    trimmed,        \* history: whether trim_components has ever succeeded
    count,          \* the count the last trim_components call was given
    value,          \* the value the last PCA property read returned
    areas,          \* the areas the last tri_areas call returned
    evectors,       \* the rows the last edge_vectors call returned
    mel,            \* the value the last mean_edge_length call returned
    unique,         \* the unique flag that call was given
    arrays,         \* the triangle-list arrays in memory, by identity
    contiguous,     \* whether the caller's array is C-contiguous
    copy_arg,       \* the copy flag TriMesh.__init__ was given
    trilist_ref,    \* the identity of the array self.trilist refers to
    warned          \* whether TriMesh.__init__ called warn

meshvars == <<points, trilist, mask, caller_mask, tm, copied, edges, uedges, boundary>>
pcavars == <<_eigenvalues, _components, _n_components, eig0, trimmed, count, value>>
geomvars == <<areas, evectors, mel, unique>>
ctorvars == <<arrays, contiguous, copy_arg, trilist_ref, warned>>
vars == <<meshvars, pcavars, geomvars, ctorvars, op, err>>

\* ------------------------------------------------------------------ bounds
\* The largest number of points of a mesh.
MaxPoints == 4
\* The largest number of triangles of a mesh.
MaxTris == 2
\* The largest number of components of a decomposition (n_samples - 1).
MaxComp == 4
\* The largest eigenvalue of a decomposition.
MaxEig == 3

\* ----------------------------------------------------------------- helpers
Range0(n) == 0 .. (n - 1)

\* a[i] of a numpy array (i is 0-based).
At(a, i) == a[i + 1]

\* The set of values a two-dimensional index array holds.
Values(adj) == UNION {{adj[r][j] : j \in DOMAIN adj[r]} : r \in DOMAIN adj}

\* The rows of a selected by the predicate keep (the order is kept).
RECURSIVE FilterRows(_, _)
FilterRows(a, keep) ==
    IF a = <<>> THEN <<>>
    ELSE LET rest == FilterRows(Tail(a), [i \in 1 .. Len(a) - 1 |-> keep[i + 1]])
         IN  IF keep[1] THEN <<Head(a)>> \o rest ELSE rest

\* ------------------------------------------------- menpo.shape.adjacency
\* Keeps the rows of the adjacency array none of whose entries is a point the
\* mask removes.
mask_adjacency_array(m, adj) ==
    FilterRows(adj, [r \in DOMAIN adj |->
                        \A j \in DOMAIN adj[r] : At(m, adj[r][j])])

\* Renumbers the indices of an adjacency array to the contiguous range
\* 0 .. k-1, each index becoming its rank among the indices the array holds.
reindex_adjacency_array(adj) ==
    LET unique_values == Values(adj)
        remap(v) == Cardinality({u \in unique_values : u < v})
    IN  [r \in DOMAIN adj |-> [j \in DOMAIN adj[r] |-> remap(adj[r][j])]]

\* PointCloud.copy: a deep copy, equal in value to the mesh copied.
copy(self) == [points |-> self.points, trilist |-> self.trilist]

\* ------------------------------------------------------- TriMesh.from_mask
\* What tm holds when from_mask returned no mesh.
NoMesh == [points |-> <<>>, trilist |-> <<>>]

n_points(self) == Len(self.points)

n_tris(self) == Len(self.trilist)

\* np.all(mask)
all(m) == \A i \in DOMAIN m : m[i]

\* points[mask, :] : the rows of points the mask selects.
BoolIndex(a, m) == FilterRows(a, m)

\* A faulty _isolated_mask: the mask is returned as given, so the selected
\* points that lost their triangles stay.
_isolated_mask_keeps_orphans(self, m) == [new_mask |-> m, mask |-> m]

\* A faulty _isolated_mask: new_mask is the caller's array itself, not a copy
\* of it, so the caller's mask is written.
_isolated_mask_in_place(self, m) ==
    LET masked_adj == mask_adjacency_array(m, self.trilist)
        nonzero == {i \in Range0(Len(m)) : At(m, i)}
        isolated_indices == nonzero \ Values(masked_adj)
        new_mask == [i \in DOMAIN m |->
                        IF (i - 1) \in isolated_indices THEN FALSE ELSE m[i]]
    IN  [new_mask |-> new_mask, mask |-> new_mask]

\* TriMesh._isolated_mask: the mask minus the selected points that lie in no
\* triangle the mask keeps. Returns the new mask and the caller's mask array
\* as the call leaves it (new_mask is a copy: the caller's array is not
\* written).
_isolated_mask(self, m) ==
    LET masked_adj == mask_adjacency_array(m, self.trilist)
        nonzero == {i \in Range0(Len(m)) : At(m, i)}
        isolated_indices == nonzero \ Values(masked_adj)
        new_mask == [i \in DOMAIN m |->
                        IF (i - 1) \in isolated_indices THEN FALSE ELSE m[i]]
    IN  [new_mask |-> new_mask, mask |-> m]

\* A faulty from_mask: the points are cut with the caller's mask instead of
\* isolated_mask.
from_mask_points_by_mask(self, m) ==
    IF Len(m) # n_points(self)
    THEN [err |-> "ValueError", tm |-> NoMesh,
          copied |-> FALSE, self |-> self, mask |-> m]
    ELSE IF all(m)
    THEN [err |-> "none", tm |-> copy(self),
          copied |-> TRUE, self |-> self, mask |-> m]
    ELSE LET iso == _isolated_mask(self, m)
             masked_adj == mask_adjacency_array(iso.new_mask, self.trilist)
         IN  [err |-> "none",
              tm |-> [points |-> BoolIndex(copy(self).points, m),
                      trilist |-> reindex_adjacency_array(masked_adj)],
              copied |-> TRUE, self |-> self, mask |-> iso.mask]

\* A faulty from_mask: the masked triangle list is not renumbered.
from_mask_no_reindex(self, m) ==
    IF Len(m) # n_points(self)
    THEN [err |-> "ValueError", tm |-> NoMesh,
          copied |-> FALSE, self |-> self, mask |-> m]
    ELSE IF all(m)
    THEN [err |-> "none", tm |-> copy(self),
          copied |-> TRUE, self |-> self, mask |-> m]
    ELSE LET iso == _isolated_mask(self, m)
             masked_adj == mask_adjacency_array(iso.new_mask, self.trilist)
         IN  [err |-> "none",
              tm |-> [points |-> BoolIndex(copy(self).points, iso.new_mask),
                      trilist |-> masked_adj],
              copied |-> TRUE, self |-> self, mask |-> iso.mask]

\* A faulty from_mask: no fast path, an all-True mask is isolated too.
from_mask_no_fast_path(self, m) ==
    IF Len(m) # n_points(self)
    THEN [err |-> "ValueError", tm |-> NoMesh,
          copied |-> FALSE, self |-> self, mask |-> m]
    ELSE LET iso == _isolated_mask(self, m)
             masked_adj == mask_adjacency_array(iso.new_mask, self.trilist)
         IN  [err |-> "none",
              tm |-> [points |-> BoolIndex(copy(self).points, iso.new_mask),
                      trilist |-> reindex_adjacency_array(masked_adj)],
              copied |-> TRUE, self |-> self, mask |-> iso.mask]

\* A faulty from_mask: the mesh is copied before the length of the mask is
\* checked.
from_mask_copy_first(self, m) ==
    IF Len(m) # n_points(self)
    THEN [err |-> "ValueError", tm |-> NoMesh,
          copied |-> TRUE, self |-> self, mask |-> m]
    ELSE IF all(m)
    THEN [err |-> "none", tm |-> copy(self),
          copied |-> TRUE, self |-> self, mask |-> m]
    ELSE LET iso == _isolated_mask(self, m)
             masked_adj == mask_adjacency_array(iso.new_mask, self.trilist)
         IN  [err |-> "none",
              tm |-> [points |-> BoolIndex(copy(self).points, iso.new_mask),
                      trilist |-> reindex_adjacency_array(masked_adj)],
              copied |-> TRUE, self |-> self, mask |-> iso.mask]

\* TriMesh.from_mask. The result holds the mesh returned (tm), the exception
\* raised (err), whether self.copy() was reached, and the receiver and the
\* caller's mask as the call leaves them.
from_mask(self, m) ==
    IF Len(m) # n_points(self)
    THEN [err |-> "ValueError", tm |-> NoMesh,
          copied |-> FALSE, self |-> self, mask |-> m]
    ELSE IF all(m)
    THEN [err |-> "none", tm |-> copy(self),
          copied |-> TRUE, self |-> self, mask |-> m]
    ELSE LET iso == _isolated_mask(self, m)
             isolated_mask == iso.new_mask
             masked_adj == mask_adjacency_array(isolated_mask, self.trilist)
         IN  [err |-> "none",
              tm |-> [points |-> BoolIndex(copy(self).points, isolated_mask),
                      trilist |-> reindex_adjacency_array(masked_adj)],
              copied |-> TRUE, self |-> self, mask |-> iso.mask]

\* ---------------------------------------------------------- TriMesh edges
\* tl[:, [i, j]] : the columns i and j (0-based) of every row.
Columns(tl, i, j) == [r \in DOMAIN tl |-> <<At(tl[r], i), At(tl[r], j)>>]

\* np.sort of an array of pairs: each row sorted ascending.
SortRows(a) ==
    [r \in DOMAIN a |-> IF a[r][1] <= a[r][2] THEN a[r] ELSE <<a[r][2], a[r][1]>>]

\* TriMesh.edge_indices: all AB pairs, then all BC pairs, then all CA pairs.
edge_indices(self) ==
    LET tl == self.trilist
    IN  Columns(tl, 0, 1) \o Columns(tl, 1, 2) \o Columns(tl, 2, 0)

\* A faulty unique_edge_indicies: the pairs are not sorted before the
\* duplicate rows are removed.
unique_edge_indicies_unsorted(self) ==
    LET edge_pairs == edge_indices(self)
    IN  {edge_pairs[r] : r \in DOMAIN edge_pairs}

\* TriMesh.unique_edge_indicies: the sorted pairs with duplicate rows removed.
\* The order of the rows np.unique leaves is that of the rows' bytes and the
\* source calls it random, so the result is the set of its (distinct) rows.
unique_edge_indicies(self) ==
    LET edge_pairs == SortRows(edge_indices(self))
    IN  {edge_pairs[r] : r \in DOMAIN edge_pairs}

\* list.index(e): the 0-based position of the first occurrence of e.
index(l, e) == (CHOOSE i \in DOMAIN l : l[i] = e /\ \A k \in 1 .. (i - 1) : l[k] # e) - 1

\* Counter(l)[e]: the number of occurrences of e in l.
Counter(l, e) == Cardinality({i \in DOMAIN l : l[i] = e})

\* A faulty boundary_tri_index: the pairs are not sorted before they are
\* counted.
boundary_tri_index_unsorted(self) ==
    LET tl == self.trilist
        edge_pairs == Columns(tl, 0, 1) \o Columns(tl, 0, 2) \o Columns(tl, 1, 2)
        mesh_edges == {edge_pairs[r] : r \in {q \in DOMAIN edge_pairs :
                                                Counter(edge_pairs, edge_pairs[q]) = 1}}
    IN  {index(edge_pairs, e) % Len(tl) : e \in mesh_edges}

\* TriMesh.boundary_tri_index: the set of edges.index(e) % n_tris over the
\* sorted pairs e (of the AB, AC and BC columns) that occur once.
boundary_tri_index(self) ==
    LET tl == self.trilist
        edge_pairs == SortRows(Columns(tl, 0, 1) \o Columns(tl, 0, 2)
                                                \o Columns(tl, 1, 2))
        mesh_edges == {edge_pairs[r] : r \in {q \in DOMAIN edge_pairs :
                                                Counter(edge_pairs, edge_pairs[q]) = 1}}
    IN  {index(edge_pairs, e) % Len(tl) : e \in mesh_edges}

\* ------------------------------------------------------------- PCAModel
\* Real numbers are fractions <<numerator, denominator>> of integers.
RatEq(x, y) == x[1] * y[2] = y[1] * x[2]

RECURSIVE Sum(_)
Sum(a) == IF a = <<>> THEN 0 ELSE Head(a) + Sum(Tail(a))

\* ndarray.mean()
mean(a) == <<Sum(a), Len(a)>>

\* a[n:]
From(a, n) == SubSeq(a, n + 1, Len(a))

\* a[:n]
UpTo(a, n) == SubSeq(a, 1, IF n < Len(a) THEN n ELSE Len(a))

\* The model as a record of its fields.
Model == [_eigenvalues |-> _eigenvalues, _components |-> _components,
          _n_components |-> _n_components]

\* The argument None of trim_components.
None == -1

\* What value holds when a call returned nothing.
NoValue == <<>>

\* The base model's n_available_components: the number of components the
\* model stores.
n_available_components(self) == Len(self._components)

\* The base model's n_components.
n_components(self) == self._n_components

\* The base model's trim_components: rejects a count larger than
\* n_available_components with a ValueError, else discards the components
\* beyond the count for good and makes the count n_components.
base_trim_components(self, n) ==
    LET k == IF n = None THEN n_components(self) ELSE n
    IN  IF k > n_available_components(self)
        THEN [err |-> "ValueError", self |-> self]
        ELSE [err |-> "none",
              self |-> [self EXCEPT !._components = UpTo(self._components, k),
                                    !._n_components = k]]

\* The base model's project_out_vectors: the vector minus its reconstruction
\* from the active components. The components are the unit vectors e_1, e_2,
\* ... of the feature space (an orthonormal basis), component i being e_i.
project_out_vectors(self, v) ==
    LET active == UpTo(self._components, n_components(self))
    IN  [i \in DOMAIN v |->
            IF \E c \in DOMAIN active : active[c] = i THEN 0 ELSE v[i]]

\* PCAModel.eigenvalues
eigenvalues(self) == UpTo(self._eigenvalues, n_components(self))

\* PCAModel.noise_variance
noise_variance(self) ==
    IF n_components(self) = n_available_components(self)
    THEN <<0, 1>>
    ELSE mean(From(self._eigenvalues, n_components(self)))

\* A faulty inverse_noise_variance: no test for zero, the division raises.
inverse_noise_variance_unchecked(self) ==
    LET nv == noise_variance(self)
    IN  IF nv[1] = 0
        THEN [err |-> "ZeroDivisionError", value |-> NoValue]
        ELSE [err |-> "none", value |-> <<nv[2], nv[1]>>]

\* PCAModel.inverse_noise_variance
inverse_noise_variance(self) ==
    LET nv == noise_variance(self)
    IN  IF nv[1] = 0
        THEN [err |-> "ValueError", value |-> NoValue]
        ELSE [err |-> "none", value |-> <<nv[2], nv[1]>>]

\* A faulty trim_components: the count is stored without the base model's
\* test of it.
trim_components_unchecked(self, n) ==
    LET k == IF n = None THEN n_components(self) ELSE n
    IN  [err |-> "none",
         self |-> [_eigenvalues |-> UpTo(self._eigenvalues, k),
                   _components |-> UpTo(self._components, k),
                   _n_components |-> k]]

\* PCAModel.trim_components: the base model's trim, and when that returns,
\* _eigenvalues cut to n_available_components.
trim_components(self, n) ==
    LET base == base_trim_components(self, n)
    IN  IF base.err # "none"
        THEN base
        ELSE [err |-> "none",
              self |-> [base.self EXCEPT !._eigenvalues =
                         UpTo(self._eigenvalues, n_available_components(base.self))]]

\* PCAModel.distance_to_subspace_vector: the left operand,
\* inverse_noise_variance, is evaluated first and its exception propagates.
distance_to_subspace_vector(self, v) ==
    LET inv == inverse_noise_variance(self)
    IN  IF inv.err # "none"
        THEN inv
        ELSE LET out == project_out_vectors(self, v)
             IN  [err |-> "none",
                  value |-> [i \in DOMAIN out |->
                                <<inv.value[1] * out[i], inv.value[2]>>]]

\* ------------------------------------------------------------ the meshes
\* What mel holds when no mean was computed, and np.mean of no elements.
NaN == <<0, 0>>

\* No geometry method has been called.
NoGeometry ==
    /\ areas = <<>>
    /\ evectors = <<>>
    /\ mel = NaN
    /\ unique = TRUE

\* The mesh was constructed with the defaults from an array of its own.
NoCaller ==
    /\ arrays = <<>>
    /\ contiguous = TRUE
    /\ copy_arg = TRUE
    /\ trilist_ref = 0
    /\ warned = FALSE

\* ------------------------------------------------------- TriMesh.__init__
\* The arrays of the program, each with an identity: arrays[id] is the
\* content of the array id. The caller's triangle list is the array 1.
CallerArray == 1

\* np.array(a, copy=True, order='C'): a new array with the content of a.
array_copy(heap, id) ==
    [arrays |-> Append(heap, heap[id]), id |-> Len(heap) + 1]

\* PointCloud.__init__(points, copy=copy): the points are stored.
pointcloud_init(pts, c) == [err |-> "none", points |-> pts]

\* A faulty __init__: the caller's array is stored whatever the flag says.
init_keeps_reference(heap, id, c_contiguous, c) ==
    [arrays |-> heap, trilist_ref |-> id, warned |-> FALSE]

\* TriMesh.__init__ for a triangle list that is given: the array the mesh
\* stores, and whether the warning was emitted.
__init__(heap, id, c_contiguous, c) ==
    IF ~c
    THEN IF ~c_contiguous
         THEN LET a == array_copy(heap, id)
              IN  [arrays |-> a.arrays, trilist_ref |-> a.id, warned |-> TRUE]
         ELSE [arrays |-> heap, trilist_ref |-> id, warned |-> FALSE]
    ELSE LET a == array_copy(heap, id)
         IN  [arrays |-> a.arrays, trilist_ref |-> a.id, warned |-> FALSE]

\* ------------------------------------------------------ TriMesh geometry
\* PointCloud.n_dims: the number of coordinates of a point.
n_dims(self) == Len(self.points[1])

\* u - v of two coordinate vectors.
Sub(u, v) == [k \in DOMAIN u |-> u[k] - v[k]]

\* t[:, j] for t = self.points[self.trilist]: the point of vertex j (0-based)
\* of every triangle.
Vertex(self, j) ==
    [r \in DOMAIN self.trilist |-> At(self.points, At(self.trilist[r], j))]

\* The rows a[r] - b[r] of two arrays of vectors.
SubRows(a, b) == [r \in DOMAIN a |-> Sub(a[r], b[r])]

\* np.cross of two vectors of the plane: the scalar u_x v_y - u_y v_x.
cross2(u, v) == u[1] * v[2] - u[2] * v[1]

\* np.cross of two vectors of space.
cross3(u, v) == <<u[2] * v[3] - u[3] * v[2],
                  u[3] * v[1] - u[1] * v[3],
                  u[1] * v[2] - u[2] * v[1]>>

Abs(x) == IF x < 0 THEN -x ELSE x

\* np.linalg.norm of a vector: the root of the sum of its squares, which is
\* a whole number for every vector the meshes of this model give rise to.
norm(v) ==
    LET sq == Sum([k \in DOMAIN v |-> v[k] * v[k]])
    IN  CHOOSE n \in 0 .. Sum([k \in DOMAIN v |-> Abs(v[k])]) : n * n = sq

\* What areas holds when tri_areas returned nothing.
NoAreas == <<>>

\* A faulty tri_areas: the areas of a 2D mesh are made non-negative.
tri_areas_unsigned(self) ==
    LET ij == SubRows(Vertex(self, 1), Vertex(self, 0))
        ik == SubRows(Vertex(self, 2), Vertex(self, 0))
    IN  IF n_dims(self) = 2
        THEN [err |-> "none",
              areas |-> [r \in DOMAIN ij |-> <<Abs(cross2(ij[r], ik[r])), 2>>]]
        ELSE IF n_dims(self) = 3
        THEN [err |-> "none",
              areas |-> [r \in DOMAIN ij |-> <<norm(cross3(ij[r], ik[r])), 2>>]]
        ELSE [err |-> "ValueError", areas |-> NoAreas]

\* TriMesh.tri_areas: each area is a fraction with the denominator 2 (the
\* cross product times 0.5).
tri_areas(self) ==
    LET ij == SubRows(Vertex(self, 1), Vertex(self, 0))
        ik == SubRows(Vertex(self, 2), Vertex(self, 0))
    IN  IF n_dims(self) = 2
        THEN [err |-> "none",
              areas |-> [r \in DOMAIN ij |-> <<cross2(ij[r], ik[r]), 2>>]]
        ELSE IF n_dims(self) = 3
        THEN [err |-> "none",
              areas |-> [r \in DOMAIN ij |-> <<norm(cross3(ij[r], ik[r])), 2>>]]
        ELSE [err |-> "ValueError", areas |-> NoAreas]

\* trilist_to_adjacency_array: the columns 0 and 1, then 1 and 2, then the
\* last and the first of every row.
trilist_to_adjacency_array(tl) ==
    Columns(tl, 0, 1) \o Columns(tl, 1, 2) \o Columns(tl, 2, 0)

\* A faulty edge_vectors: the third block repeats the second.
edge_vectors_bc_twice(self) ==
    SubRows(Vertex(self, 1), Vertex(self, 0)) \o
    SubRows(Vertex(self, 2), Vertex(self, 1)) \o
    SubRows(Vertex(self, 2), Vertex(self, 1))

\* TriMesh.edge_vectors: t[:, 1] - t[:, 0], then t[:, 2] - t[:, 1], then
\* t[:, 2] - t[:, 0].
edge_vectors(self) ==
    SubRows(Vertex(self, 1), Vertex(self, 0)) \o
    SubRows(Vertex(self, 2), Vertex(self, 1)) \o
    SubRows(Vertex(self, 2), Vertex(self, 0))

\* TriMesh.unique_edge_vectors: x[:, 1] - x[:, 0] for x the points of the
\* unique edges; one vector for each row of unique_edge_indicies.
unique_edge_vectors(self) ==
    [e \in unique_edge_indicies(self) |->
        Sub(At(self.points, e[2]), At(self.points, e[1]))]

\* TriMesh.edge_lengths
edge_lengths(self) ==
    LET ev == edge_vectors(self) IN [i \in DOMAIN ev |-> norm(ev[i])]

\* TriMesh.unique_edge_lengths
unique_edge_lengths(self) ==
    LET uv == unique_edge_vectors(self) IN [e \in DOMAIN uv |-> norm(uv[e])]

\* The sum of the values of a function.
RECURSIVE SumOver(_)
SumOver(f) ==
    IF DOMAIN f = {} THEN 0
    ELSE LET x == CHOOSE y \in DOMAIN f : TRUE
         IN  f[x] + SumOver([y \in DOMAIN f \ {x} |-> f[y]])

\* TriMesh.mean_edge_length: np.mean as the fraction <<sum, number>>, which
\* is NaN when there is no edge.
mean_edge_length(self, u) ==
    IF u
    THEN LET ul == unique_edge_lengths(self)
         IN  <<SumOver(ul), Cardinality(DOMAIN ul)>>
    ELSE mean(edge_lengths(self))

\* The dimensions of the points of a mesh: 1 to 4.
Dims == {1, 2, 3, 4}

\* A point of the plane as a point of d dimensions: the first coordinates
\* are kept and the others are 0.
Embed(q, d) == [k \in 1 .. d |-> IF k <= 2 THEN q[k] ELSE 0]

\* The coordinates of point i: the centre and the corners of a rhombus with
\* half-diagonals 3 and 4, so that points 0, 1, 2 span a right triangle with
\* legs 3 and 4 and the distance of any two of the first five points is a
\* whole number (edge lengths are computed exactly).
Layout(i) ==
    CASE i = 0 -> <<0, 0>>
      [] i = 1 -> <<3, 0>>
      [] i = 2 -> <<0, 4>>
      [] i = 3 -> <<-3, 0>>
      [] i = 4 -> <<0, -4>>
      [] OTHER -> <<3 * i, 0>>

PointsOf(n) == [i \in 1 .. n |-> Layout(i - 1)]

\* The triangle rows over n points: every set of three points in ascending
\* order, the row <<0, 2, 1>> (the first triangle in the other winding), and
\* the degenerate rows <<a, a, a + 1>> and <<0, 0, 0>> that repeat a vertex.
TriRows(n) ==
    {t \in Range0(n) \X Range0(n) \X Range0(n) :
        \/ t[1] < t[2] /\ t[2] < t[3]
        \/ t = <<0, 2, 1>>
        \/ t[1] = t[2] /\ t[3] = t[1] + 1
        \/ t = <<0, 0, 0>>}

TriLists(n) == UNION {[1 .. t -> TriRows(n)] : t \in 0 .. MaxTris}

\* The masks from_mask is called with: every mask of the right length, and
\* masks one entry too short and one too long.
Masks(n) ==
    [1 .. n -> BOOLEAN] \cup
    {[i \in 1 .. k |-> b] : k \in {n - 1, n + 1}, b \in BOOLEAN}

\* The mesh as a record of its fields.
Self == [points |-> points, trilist |-> trilist]

InitMesh ==
    /\ \E n \in 1 .. MaxPoints :
          /\ points = PointsOf(n)
          /\ trilist \in TriLists(n)
    /\ mask = <<>>
    /\ caller_mask = <<>>
    /\ tm = NoMesh
    /\ copied = FALSE
    /\ edges = <<>>
    /\ uedges = {}
    /\ boundary = {}

\* A mesh of 1 to 4 dimensions, for the geometry methods.
InitGeometry ==
    /\ \E n \in 1 .. MaxPoints : \E d \in Dims :
          /\ points = [i \in 1 .. n |-> Embed(Layout(i - 1), d)]
          /\ trilist \in TriLists(n)
    /\ mask = <<>>
    /\ caller_mask = <<>>
    /\ tm = NoMesh
    /\ copied = FALSE
    /\ edges = <<>>
    /\ uedges = {}
    /\ boundary = {}

\* The caller before it constructs a mesh: it holds the points and a triangle
\* list that is C-contiguous or not (an array with no element always is).
InitCaller ==
    /\ \E n \in 1 .. MaxPoints :
          /\ points = PointsOf(n)
          /\ \E tl \in TriLists(n) : arrays = <<tl>>
    /\ contiguous \in BOOLEAN
    /\ Len(arrays[CallerArray]) = 0 => contiguous
    /\ copy_arg = TRUE
    /\ trilist_ref = 0
    /\ warned = FALSE
    /\ trilist = <<>>
    /\ mask = <<>>
    /\ caller_mask = <<>>
    /\ tm = NoMesh
    /\ copied = FALSE
    /\ edges = <<>>
    /\ uedges = {}
    /\ boundary = {}

\* The mesh of the specification of the PCA model: one triangle.
FixedMesh ==
    /\ points = PointsOf(3)
    /\ trilist = <<(<<0, 1, 2>>)>>
    /\ mask = <<>>
    /\ caller_mask = <<>>
    /\ tm = NoMesh
    /\ copied = FALSE
    /\ edges = <<>>
    /\ uedges = {}
    /\ boundary = {}

\* A method is called when the result of the call before it has been dropped.
FromMask ==
    \E m \in Masks(Len(points)) :
        LET r == from_mask(Self, m)
        IN  /\ op = "init"
            /\ op' = "from_mask"
            /\ err' = r.err
            /\ points' = r.self.points
            /\ trilist' = r.self.trilist
            /\ mask' = m
            /\ caller_mask' = r.mask
            /\ tm' = r.tm
            /\ copied' = r.copied
            /\ edges' = <<>>
            /\ uedges' = {}
            /\ boundary' = {}
            /\ UNCHANGED <<pcavars, geomvars, ctorvars>>

EdgeIndices ==
    /\ op = "init"
    /\ op' = "edge_indices"
    /\ err' = "none"
    /\ edges' = edge_indices(Self)
    /\ uedges' = {}
    /\ boundary' = {}
    /\ mask' = <<>>
    /\ caller_mask' = <<>>
    /\ tm' = NoMesh
    /\ copied' = FALSE
    /\ UNCHANGED <<points, trilist, pcavars, geomvars, ctorvars>>

UniqueEdgeIndicies ==
    /\ op = "init"
    /\ op' = "unique_edge_indicies"
    /\ err' = "none"
    /\ uedges' = unique_edge_indicies(Self)
    /\ edges' = <<>>
    /\ boundary' = {}
    /\ mask' = <<>>
    /\ caller_mask' = <<>>
    /\ tm' = NoMesh
    /\ copied' = FALSE
    /\ UNCHANGED <<points, trilist, pcavars, geomvars, ctorvars>>

BoundaryTriIndex ==
    /\ op = "init"
    /\ op' = "boundary_tri_index"
    /\ err' = "none"
    /\ boundary' = boundary_tri_index(Self)
    /\ edges' = <<>>
    /\ uedges' = {}
    /\ mask' = <<>>
    /\ caller_mask' = <<>>
    /\ tm' = NoMesh
    /\ copied' = FALSE
    /\ UNCHANGED <<points, trilist, pcavars, geomvars, ctorvars>>

\* The caller drops the result of the last call; the mesh stays.
Release ==
    /\ op # "init"
    /\ op' = "init"
    /\ err' = "none"
    /\ mask' = <<>>
    /\ caller_mask' = <<>>
    /\ tm' = NoMesh
    /\ copied' = FALSE
    /\ edges' = <<>>
    /\ uedges' = {}
    /\ boundary' = {}
    /\ UNCHANGED <<points, trilist, pcavars, geomvars, ctorvars>>

TriAreas ==
    LET r == tri_areas(Self)
    IN  /\ op = "init"
        /\ op' = "tri_areas"
        /\ err' = r.err
        /\ areas' = r.areas
        /\ evectors' = <<>>
        /\ mel' = NaN
        /\ unique' = TRUE
        /\ UNCHANGED <<meshvars, pcavars, ctorvars>>

EdgeVectors ==
    /\ op = "init"
    /\ op' = "edge_vectors"
    /\ err' = "none"
    /\ evectors' = edge_vectors(Self)
    /\ areas' = NoAreas
    /\ mel' = NaN
    /\ unique' = TRUE
    /\ UNCHANGED <<meshvars, pcavars, ctorvars>>

MeanEdgeLength ==
    \E u \in BOOLEAN :
        /\ op = "init"
        /\ op' = "mean_edge_length"
        /\ err' = "none"
        /\ mel' = mean_edge_length(Self, u)
        /\ unique' = u
        /\ areas' = NoAreas
        /\ evectors' = <<>>
        /\ UNCHANGED <<meshvars, pcavars, ctorvars>>

\* The caller drops the result of the last geometry call; the mesh stays.
ReleaseGeometry ==
    /\ op # "init"
    /\ op' = "init"
    /\ err' = "none"
    /\ areas' = NoAreas
    /\ evectors' = <<>>
    /\ mel' = NaN
    /\ unique' = TRUE
    /\ UNCHANGED <<meshvars, pcavars, ctorvars>>

\* TriMesh(points, trilist, copy=c): the mesh's trilist is the array it
\* stores.
Construct ==
    \E c \in BOOLEAN :
        LET base == pointcloud_init(points, c)
            r == __init__(arrays, CallerArray, contiguous, c)
        IN  /\ op = "init"
            /\ trilist_ref = 0
            /\ op' = "__init__"
            /\ err' = base.err
            /\ points' = base.points
            /\ copy_arg' = c
            /\ arrays' = r.arrays
            /\ trilist_ref' = r.trilist_ref
            /\ warned' = r.warned
            /\ trilist' = r.arrays[r.trilist_ref]
            /\ UNCHANGED <<mask, caller_mask, tm, copied, edges, uedges,
                           boundary, contiguous, pcavars, geomvars>>

\* The caller assigns another index to an entry of its array after the
\* construction; the mesh sees what the array it stores holds.
CallerWrite ==
    \E r \in DOMAIN arrays[CallerArray] : \E j \in 1 .. 3 :
        \E v \in Range0(Len(points)) :
            /\ op = "__init__"
            /\ v # arrays[CallerArray][r][j]
            /\ op' = "write"
            /\ arrays' = [arrays EXCEPT ![CallerArray][r][j] = v]
            /\ trilist' = arrays'[trilist_ref]
            /\ UNCHANGED <<points, mask, caller_mask, tm, copied, edges, uedges,
                           boundary, contiguous, copy_arg, trilist_ref, warned,
                           pcavars, geomvars, err>>

\* ------------------------------------------------- properties of the mesh
\* The last call was from_mask and it returned a mesh.
Returned == op = "from_mask" /\ err = "none"

\* Row r of the triangle list has all three vertices selected by the mask.
AllSelected(r) == \A j \in 1 .. 3 : At(mask, trilist[r][j])

KeptRows == {r \in DOMAIN trilist : AllSelected(r)}

\* The points (by index) of the mesh that the returned mesh holds; the points
\* of a mesh have distinct coordinates.
Retained == {i \in Range0(Len(points)) :
                \E k \in DOMAIN tm.points : tm.points[k] = At(points, i)}

\* The points (by index) that are a vertex of no triangle of the mesh.
Unused == Range0(Len(points)) \ Values(trilist)

\* C1: after from_mask with a mask that removes at least one point, every
\* point of the returned mesh is a vertex of a returned triangle; the points
\* returned are the selected points that lie in a triangle whose vertices are
\* all selected, and the triangles returned are as many as those triangles.
C1_EveryPointInATriangle ==
    (Returned /\ ~all(mask)) =>
        /\ \A i \in Range0(Len(tm.points)) :
              \E r \in DOMAIN tm.trilist : \E j \in 1 .. 3 : tm.trilist[r][j] = i
        /\ Len(tm.points) = Cardinality(Retained)
        /\ Retained = {i \in Range0(Len(points)) :
                          At(mask, i) /\ \E r \in KeptRows : \E j \in 1 .. 3 :
                                             trilist[r][j] = i}
        /\ Len(tm.trilist) = Cardinality(KeptRows)

\* C1's case: a selected point lost its triangles and is gone from the
\* returned mesh, which still holds a triangle.
C1_Witness ==
    /\ Returned /\ ~all(mask)
    /\ \E i \in Range0(Len(points)) :
          At(mask, i) /\ i \in Values(trilist) /\ i \notin Retained
    /\ tm.trilist # <<>>

\* C2: after from_mask with a mask that is not all-True, the returned
\* triangles are the rows with all three vertices selected, in their order,
\* each index replaced by its rank among the retained points, and every index
\* is below the number of returned points.
C2_KeptRowsRenumbered ==
    (Returned /\ ~all(mask)) =>
        /\ Len(tm.trilist) = Cardinality(KeptRows)
        /\ \A r \in KeptRows :
              tm.trilist[1 + Cardinality({q \in KeptRows : q < r})] =
                  [j \in 1 .. 3 |->
                      Cardinality({i \in Retained : i < trilist[r][j]})]
        /\ \A r \in DOMAIN tm.trilist : \A j \in 1 .. 3 :
              tm.trilist[r][j] \in Range0(Len(tm.points))

\* C2's case: a triangle was dropped and the indices of a kept one changed.
C2_Witness ==
    /\ Returned /\ ~all(mask)
    /\ tm.trilist # <<>>
    /\ Len(tm.trilist) < Len(trilist)
    /\ \E r \in KeptRows : \A k \in DOMAIN tm.trilist : tm.trilist[k] # trilist[r]

\* The mask removes only points that are a vertex of no triangle.
RemovesOnlyUnused == \A i \in Range0(Len(mask)) : ~At(mask, i) => i \in Unused

\* C3 as the spec states it: after from_mask with a mask that removes only
\* points used by no triangle, the returned triangle list equals the mesh's.
C3_Original_SameIndices ==
    (Returned /\ RemovesOnlyUnused) => tm.trilist = trilist

\* C3, amended: after from_mask with a mask that removes only points used by
\* no triangle, the returned triangle list has the rows of the mesh's in the
\* same order; under an all-True mask the indices are unchanged, otherwise
\* each index v is lowered by the number of points below v that are a vertex
\* of no triangle.
C3_IndicesLoweredByUnusedBelow ==
    (Returned /\ RemovesOnlyUnused) =>
        IF all(mask)
        THEN tm.trilist = trilist
        ELSE tm.trilist =
                 [r \in DOMAIN trilist |->
                     [j \in 1 .. 3 |->
                         trilist[r][j] -
                             Cardinality({u \in Unused : u < trilist[r][j]})]]

\* C3's case: the mask removed an unused point and the indices changed.
C3_Witness ==
    /\ Returned /\ RemovesOnlyUnused /\ ~all(mask)
    /\ trilist # <<>>
    /\ tm.trilist # trilist

\* The unordered endpoint pair of edge j (1: AB, 2: BC, 3: CA) of row r.
EdgeSet(r, j) == {trilist[r][j], trilist[r][(j % 3) + 1]}

\* The number of the 3 * n_tris edges with the unordered endpoint pair e.
Mult(e) == Cardinality({s \in (DOMAIN trilist) \X (1 .. 3) : EdgeSet(s[1], s[2]) = e})

\* No two triangles of the list share an edge.
NoSharedEdge ==
    \A r, q \in DOMAIN trilist :
        r # q => \A j, k \in 1 .. 3 : EdgeSet(r, j) # EdgeSet(q, k)

\* Every triangle of the list has three distinct vertices.
NoRepeatedVertex ==
    \A r \in DOMAIN trilist :
        Cardinality({trilist[r][j] : j \in 1 .. 3}) = 3

\* C7 as the spec states it: edge_indices has 3 * n_tris rows,
\* unique_edge_indicies at most as many, and as many if and only if no two
\* triangles share an edge.
C7_Original_EqualIffNoSharedEdge ==
    /\ op = "edge_indices" => Len(edges) = 3 * Len(trilist)
    /\ op = "unique_edge_indicies" =>
          /\ Cardinality(uedges) <= 3 * Len(trilist)
          /\ Cardinality(uedges) = 3 * Len(trilist) <=> NoSharedEdge

\* C7, amended: edge_indices has 3 * n_tris rows, unique_edge_indicies at
\* most as many, and as many if and only if no two triangles share an edge
\* and no triangle repeats a vertex.
C7_EqualIffNoRepeatedEdge ==
    /\ op = "edge_indices" => Len(edges) = 3 * Len(trilist)
    /\ op = "unique_edge_indicies" =>
          /\ Cardinality(uedges) <= 3 * Len(trilist)
          /\ Cardinality(uedges) = 3 * Len(trilist) <=>
                 (NoSharedEdge /\ NoRepeatedVertex)

\* C7's case: two triangles that share no edge, one of them with a repeated
\* vertex, and fewer unique edges than edges.
C7_Witness ==
    /\ op = "unique_edge_indicies"
    /\ Len(trilist) = 2
    /\ NoSharedEdge /\ ~NoRepeatedVertex
    /\ Cardinality(uedges) < 3 * Len(trilist)

\* The triangles (by index) that own an edge whose unordered endpoint pair
\* occurs once among all the edges.
BoundaryTris ==
    {r - 1 : r \in {q \in DOMAIN trilist : \E j \in 1 .. 3 : Mult(EdgeSet(q, j)) = 1}}

C9_AllTrueIsIdentity ==
    (op = "from_mask" /\ Len(mask) = Len(points) /\ all(mask)) =>
        /\ err = "none"
        /\ tm.points = points
        /\ tm.trilist = trilist

\* C9's case: the mesh has a point in no triangle and a triangle.
C9_Witness ==
    /\ Returned /\ Len(mask) = Len(points) /\ all(mask)
    /\ Unused # {}
    /\ trilist # <<>>

\* C10: a from_mask call with a mask of another length than n_points raises
\* ValueError, before self.copy(), returns no mesh and leaves the points and
\* the triangle list of the mesh as they were.
C10_WrongLengthRejected ==
    [][(op' = "from_mask" /\ Len(mask') # Len(points)) =>
          /\ err' = "ValueError"
          /\ ~copied'
          /\ tm' = NoMesh
          /\ points' = points
          /\ trilist' = trilist]_vars

\* C10's case: a call with a mask one entry too long was rejected.
C10_Witness ==
    /\ op = "from_mask"
    /\ Len(mask) = Len(points) + 1
    /\ err = "ValueError"

\* C15: every from_mask call, whether it returns a mesh or raises, leaves the
\* points and the triangle list of the mesh and the caller's mask array as
\* they were.
C15_FromMaskWritesNothing ==
    [][op' = "from_mask" =>
          /\ points' = points
          /\ trilist' = trilist
          /\ caller_mask' = mask']_vars

\* C15's case: a call removed a selected point that had lost its triangles
\* (the new mask differs from the mask given) and returned a smaller mesh.
C15_Witness ==
    /\ Returned /\ ~all(mask)
    /\ \E i \in Range0(Len(points)) : At(mask, i) /\ i \notin Retained
    /\ tm.trilist # <<>>
    /\ Len(tm.points) < Len(points)
    /\ caller_mask = mask

\* --------------------------------------------- properties of the geometry
\* C14: for every mesh and every i in [0, 3 * n_tris), row i of
\* edge_vectors() is points[b] - points[a] for (a, b) row i of edge_indices(),
\* and edge_indices() lists the edges in the order and the direction of
\* trilist_to_adjacency_array. The third block of edge_vectors is C - A while
\* the third block of edge_indices is (C, A), so the statement fails on every
\* triangle whose first and last vertex are different points.
C14_Original_VectorsFollowIndices ==
    op = "edge_vectors" =>
        /\ edge_indices(Self) = trilist_to_adjacency_array(trilist)
        /\ Len(evectors) = 3 * n_tris(Self)
        /\ \A i \in DOMAIN evectors :
              LET e == edge_indices(Self)[i]
              IN  evectors[i] = Sub(At(points, e[2]), At(points, e[1]))

\* The two means of the mesh of the state: the one mean_edge_length returned
\* and the one it returns for the other value of unique.
MeanUnique == IF unique THEN mel ELSE mean_edge_length(Self, TRUE)
MeanAll == IF unique THEN mean_edge_length(Self, FALSE) ELSE mel

\* The two means are the same number (two nan count as the same here).
MeansEqual ==
    \/ MeanUnique = NaN /\ MeanAll = NaN
    \/ /\ MeanUnique[2] > 0
       /\ MeanAll[2] > 0
       /\ RatEq(MeanUnique, MeanAll)

\* Every unordered endpoint pair of the mesh occurs equally often among its
\* 3 * n_tris edges.
EdgesOccurEquallyOften ==
    \A r, q \in DOMAIN trilist : \A j, k \in 1 .. 3 :
        Mult(EdgeSet(r, j)) = Mult(EdgeSet(q, k))

\* C11 as the spec states it: mean_edge_length(unique=True) and
\* mean_edge_length(unique=False) differ on every mesh in which an edge is
\* shared by two triangles and are equal on every mesh with no shared edge.
C11_Original_DifferIffSharedEdge ==
    op = "mean_edge_length" =>
        /\ ~NoSharedEdge => ~MeansEqual
        /\ NoSharedEdge => MeansEqual

\* C11, amended: on a mesh with no triangle both means are nan; on a mesh
\* with a triangle both are numbers, and they are equal whenever every
\* unordered endpoint pair occurs equally often among the edges, which
\* includes every mesh with no shared edge and no repeated vertex. They can
\* differ only where some pair occurs more often than another, and need not
\* differ there.
C11_EqualWhenEdgesOccurEquallyOften ==
    op = "mean_edge_length" =>
        /\ Len(trilist) = 0 => MeanUnique = NaN /\ MeanAll = NaN
        /\ Len(trilist) > 0 =>
              /\ MeanUnique[2] > 0 /\ MeanAll[2] > 0
              /\ EdgesOccurEquallyOften => MeansEqual
              /\ (NoSharedEdge /\ NoRepeatedVertex) => EdgesOccurEquallyOften
              /\ ~MeansEqual => ~NoSharedEdge \/ ~NoRepeatedVertex

\* C11's case: two proper triangles that share an edge, and both means are
\* the same number: the shared edge is as long as the mean of the others.
C11_Witness ==
    /\ op = "mean_edge_length"
    /\ Len(trilist) = 2
    /\ trilist[1] # trilist[2]
    /\ NoRepeatedVertex
    /\ ~NoSharedEdge
    /\ ~EdgesOccurEquallyOften
    /\ MeansEqual

\* The row with the vertices at the positions i and j exchanged.
Exchange(row, i, j) ==
    [k \in DOMAIN row |-> IF k = i THEN row[j] ELSE IF k = j THEN row[i] ELSE row[k]]

\* The mesh of the state with two vertices of triangle r exchanged.
Exchanged(r, i, j) ==
    [points |-> points,
     trilist |-> [trilist EXCEPT ![r] = Exchange(trilist[r], i, j)]]

\* The point of vertex j (1: A, 2: B, 3: C) of triangle r.
Corner(r, j) == At(points, trilist[r][j])

\* Twice the signed area of triangle r of a 2D mesh, from the coordinates:
\* (Bx - Ax)(Cy - Ay) - (By - Ay)(Cx - Ax).
TwiceSignedArea(r) ==
    LET A == Corner(r, 1)
        B == Corner(r, 2)
        C == Corner(r, 3)
    IN  (B[1] - A[1]) * (C[2] - A[2]) - (B[2] - A[2]) * (C[1] - A[1])

\* Triangle r is a right triangle with the legs 3 and 4: its sides are 3, 4
\* and 5 long.
RightTriangle34(r) ==
    {norm(Sub(Corner(r, 2), Corner(r, 1))),
     norm(Sub(Corner(r, 3), Corner(r, 2))),
     norm(Sub(Corner(r, 1), Corner(r, 3)))} = {3, 4, 5}

\* C12: for a 2D mesh tri_areas() returns for each triangle (A, B, C) half
\* the scalar cross product of B - A and C - A with its sign kept, so
\* exchanging two vertices of a triangle negates its area and a right triangle
\* with the legs 3 and 4 gives 6 or -6; for a 3D mesh every area is
\* non-negative; for any other dimensionality tri_areas() fails with a
\* ValueError.
C12_SignedAreas ==
    op = "tri_areas" =>
        /\ n_dims(Self) = 2 =>
              /\ err = "none"
              /\ Len(areas) = n_tris(Self)
              /\ \A r \in DOMAIN trilist :
                    /\ areas[r] = <<TwiceSignedArea(r), 2>>
                    /\ \A i, j \in 1 .. 3 :
                          i # j =>
                              tri_areas(Exchanged(r, i, j)).areas[r] =
                                  <<-(areas[r][1]), 2>>
                    /\ RightTriangle34(r) => areas[r] \in {<<12, 2>>, <<-12, 2>>}
        /\ n_dims(Self) = 3 =>
              /\ err = "none"
              /\ Len(areas) = n_tris(Self)
              /\ \A r \in DOMAIN trilist :
                    /\ areas[r][1] >= 0 /\ areas[r][2] = 2
                    /\ RightTriangle34(r) => areas[r] = <<12, 2>>
        /\ n_dims(Self) \notin {2, 3} =>
              /\ err = "ValueError"
              /\ areas = NoAreas

\* C12's case: a 2D mesh with two triangles of the same right triangle with
\* the legs 3 and 4, one listed anticlockwise and one clockwise, with the
\* areas 6 and -6.
C12_Witness ==
    /\ op = "tri_areas"
    /\ err = "none"
    /\ n_dims(Self) = 2
    /\ Len(trilist) = 2
    /\ RightTriangle34(1) /\ RightTriangle34(2)
    /\ areas[1] = <<12, 2>>
    /\ areas[2] = <<-12, 2>>

\* ------------------------------------------ properties of the construction
\* C13: with copy=True the mesh stores a copy of the triangle list, so a
\* later change to the caller's array does not change the mesh; with
\* copy=False and a C-contiguous triangle list the mesh stores the caller's
\* array itself, without a warning; with copy=False and a non-contiguous
\* triangle list the mesh stores a copy and a warning is emitted, and the
\* construction does not fail.
C13_CopyFlag ==
    /\ [](op = "__init__" =>
            /\ err = "none"
            /\ trilist = arrays[CallerArray]
            /\ copy_arg => trilist_ref # CallerArray
            /\ (~copy_arg /\ contiguous) =>
                  trilist_ref = CallerArray /\ ~warned
            /\ (~copy_arg /\ ~contiguous) =>
                  trilist_ref # CallerArray /\ warned)
    /\ [][op' = "write" =>
            /\ arrays'[CallerArray] # arrays[CallerArray]
            /\ (copy_arg \/ ~contiguous) => trilist' = trilist
            /\ (~copy_arg /\ contiguous) => trilist' = arrays'[CallerArray]]_vars

\* C13's case: a mesh constructed with copy=False from a non-contiguous
\* triangle list, with the warning, that kept its triangles when the caller
\* changed its array.
C13_Witness ==
    /\ op = "write"
    /\ ~copy_arg /\ ~contiguous
    /\ warned
    /\ err = "none"
    /\ trilist # arrays[CallerArray]

\* ------------------------------------------------------------ the models
\* The eigenvalues of a decomposition: k of them, in descending order.
Decompositions ==
    UNION {{e \in [1 .. k -> 0 .. MaxEig] :
               \A i \in 1 .. (k - 1) : e[i] >= e[i + 1]} : k \in 1 .. MaxComp}

\* The vectors distance_to_subspace_vector is called with, of n features:
\* the unit vectors and the vector of ones.
Vectors(n) ==
    {[i \in 1 .. n |-> IF i = j THEN 1 ELSE 0] : j \in 1 .. n} \cup
    {[i \in 1 .. n |-> 1]}

\* PCAModel.__init__: the decomposition's eigenvalues and eigenvectors are
\* stored and every component is active.
InitPCA ==
    /\ _eigenvalues \in Decompositions
    /\ _components = [i \in 1 .. Len(_eigenvalues) |-> i]
    /\ _n_components = Len(_eigenvalues)
    /\ eig0 = _eigenvalues
    /\ trimmed = FALSE
    /\ count = None
    /\ value = NoValue

\* The model of the specification of the mesh: two components.
FixedPCA ==
    /\ _eigenvalues = <<2, 1>>
    /\ _components = <<1, 2>>
    /\ _n_components = 2
    /\ eig0 = <<2, 1>>
    /\ trimmed = FALSE
    /\ count = None
    /\ value = NoValue

TrimComponents ==
    \E n \in {None} \cup (1 .. MaxComp + 1) :
        LET r == trim_components(Model, n)
        IN  /\ op' = "trim_components"
            /\ err' = r.err
            /\ _eigenvalues' = r.self._eigenvalues
            /\ _components' = r.self._components
            /\ _n_components' = r.self._n_components
            /\ trimmed' = (trimmed \/ r.err = "none")
            /\ count' = n
            /\ value' = NoValue
            /\ UNCHANGED <<eig0, meshvars, geomvars, ctorvars>>

NoiseVariance ==
    /\ op' = "noise_variance"
    /\ err' = "none"
    /\ value' = noise_variance(Model)
    /\ UNCHANGED <<_eigenvalues, _components, _n_components, eig0, trimmed, count, meshvars, geomvars, ctorvars>>

InverseNoiseVariance ==
    LET r == inverse_noise_variance(Model)
    IN  /\ op' = "inverse_noise_variance"
        /\ err' = r.err
        /\ value' = r.value
        /\ UNCHANGED <<_eigenvalues, _components, _n_components, eig0, trimmed, count, meshvars, geomvars, ctorvars>>

DistanceToSubspaceVector ==
    \E v \in Vectors(Len(eig0) + 1) :
        LET r == distance_to_subspace_vector(Model, v)
        IN  /\ op' = "distance_to_subspace_vector"
            /\ err' = r.err
            /\ value' = r.value
            /\ UNCHANGED <<_eigenvalues, _components, _n_components, eig0, trimmed, count, meshvars, geomvars, ctorvars>>

\* ----------------------------------------------- properties of the model
\* C4 as the spec states it: once the model is trimmed to fewer components
\* than the decomposition has, noise_variance is the mean of the
\* decomposition's eigenvalues at the indices n_components and beyond.
C4_Original_NoiseVarianceOfDiscarded ==
    (op = "noise_variance" /\ trimmed /\ _n_components < Len(eig0)) =>
        RatEq(value, mean(From(eig0, _n_components)))

\* C5: a trim_components call never raises n_components; with a count below
\* n_components it returns and n_components is the count; with a count above
\* n_available_components it raises ValueError and n_components, the
\* components and the eigenvalues are as before.
C5_TrimNeverGrows ==
    [][op' = "trim_components" =>
          /\ _n_components' <= _n_components
          /\ (count' # None /\ count' < _n_components) =>
                 (err' = "none" /\ _n_components' = count')
          /\ count' > Len(_components) =>
                 /\ err' = "ValueError"
                 /\ UNCHANGED <<_n_components, _components, _eigenvalues>>]_vars

\* C5's case: a trimmed model refused a count that the decomposition had.
C5_Witness ==
    /\ op = "trim_components"
    /\ err = "ValueError"
    /\ trimmed
    /\ count > _n_components
    /\ count <= Len(eig0)

\* C6: on a model that was never trimmed, noise_variance is 0 and
\* inverse_noise_variance and distance_to_subspace_vector raise ValueError
\* and return nothing.
C6_UntrimmedHasNoNoise ==
    (~trimmed /\ _n_components = Len(_components)) =>
        /\ op = "noise_variance" => value = <<0, 1>>
        /\ op \in {"inverse_noise_variance", "distance_to_subspace_vector"} =>
              (err = "ValueError" /\ value = NoValue)

\* C6's case: distance_to_subspace_vector failed on an untrimmed model whose
\* eigenvalues are positive.
C6_Witness ==
    /\ ~trimmed
    /\ op = "distance_to_subspace_vector"
    /\ err = "ValueError"
    /\ \A i \in DOMAIN eig0 : eig0[i] > 0

\* -------------------------------------------------------- specifications
\* The mesh: a mesh is constructed and its methods are called in any order.
Init ==
    InitMesh /\ FixedPCA /\ NoGeometry /\ NoCaller /\ op = "init" /\ err = "none"

Next ==
    FromMask \/ EdgeIndices \/ UniqueEdgeIndicies \/ BoundaryTriIndex \/ Release

Spec == Init /\ [][Next]_vars

\* The PCA model: a model is built and its methods are called in any order.
InitModel ==
    InitPCA /\ FixedMesh /\ NoGeometry /\ NoCaller /\ op = "init" /\ err = "none"

NextModel ==
    TrimComponents \/ NoiseVariance \/ InverseNoiseVariance \/ DistanceToSubspaceVector

SpecPCA == InitModel /\ [][NextModel]_vars

\* The geometry of a mesh: a mesh of 1 to 4 dimensions is constructed and its
\* geometry methods are called in any order.
InitGeom ==
    InitGeometry /\ FixedPCA /\ NoGeometry /\ NoCaller /\ op = "init" /\ err = "none"

NextGeom == TriAreas \/ EdgeVectors \/ MeanEdgeLength \/ ReleaseGeometry

SpecGeom == InitGeom /\ [][NextGeom]_vars

\* The construction of a mesh: the caller constructs a mesh from its triangle
\* list and then writes to that list.
InitConstruct ==
    InitCaller /\ FixedPCA /\ NoGeometry /\ op = "init" /\ err = "none"

NextConstruct == Construct \/ CallerWrite

SpecConstruct == InitConstruct /\ [][NextConstruct]_vars

====
